---- MODULE Spec2Model ----
(***************************************************************************)
(* Scoring and leaderboard flow of src/pages/3_Complete_Assignments.py:    *)
(* a Streamlit script run embeds the reference and the submitted answer,   *)
(* turns their cosine distance into a score, saves the answer record in    *)
(* the DynamoDB table when it beats the stored one, and reads the          *)
(* leaderboard back.  Each browser session runs the script in its own      *)
(* thread, so script runs interleave at the calls to the table.            *)
(*                                                                         *)
(* Arithmetic on the embeddings is exact (integer components, comparisons  *)
(* of squares instead of a square root); strings that the code builds by   *)
(* formatting are sequences of characters.                                 *)
(***************************************************************************)
EXTENDS Integers, Sequences, FiniteSets, TLC

(* ------------------------------ bounds --------------------------------- *)

\* submissions made in one behaviour
MaxSubmits == 2
\* largest absolute value of an embedding component in the scorer's domain
MaxCoord == 2

\* the script runs that may be in flight at once
Sessions == {1, 2}

(* --------------------------- identifiers -------------------------------- *)

\* student ids handed to save_answer_record (the page passes user_name)
Students == { <<"u">>, <<"v">> }
\* ids of the assignment records present in the table
AssignmentIds == { <<"7">> }
\* the "Id" values of an assignment's questions
QuestionIds == {1, 2}
\* answers a student may type
AnswerTexts == {"same", "good", "alt", "opp"}
\* the reference answer stored with every question
ReferenceText == "ref"

(* ------------------------- string conversions --------------------------- *)

Digits == <<"0", "1", "2", "3", "4", "5", "6", "7", "8", "9">>

DigitChar(d) == Digits[d + 1]

DigitVal(c) == CHOOSE d \in 0..9 : Digits[d + 1] = c

RECURSIVE NatToStr(_)
NatToStr(n) == IF n < 10 THEN <<DigitChar(n)>>
               ELSE NatToStr(n \div 10) \o <<DigitChar(n % 10)>>

\* str(n) of a Python int: optional sign, decimal digits, no padding
IntToStr(n) == IF n < 0 THEN <<"-">> \o NatToStr(-n) ELSE NatToStr(n)

RECURSIVE DigitsToNat(_)
DigitsToNat(s) == IF Len(s) = 0 THEN 0
                  ELSE 10 * DigitsToNat(SubSeq(s, 1, Len(s) - 1)) + DigitVal(s[Len(s)])

\* float(s) of a string holding a decimal integer; the value is integral
StrToFloat(s) == IF Len(s) > 0 /\ s[1] = "-" THEN -DigitsToNat(Tail(s))
                 ELSE DigitsToNat(s)

\* f"answer_{student_id}_{assignment_id}_{question_id}"
AnswerId(student_id, assignment_id, question_id) ==
    <<"answer", "_">> \o student_id \o <<"_">> \o assignment_id
        \o <<"_">> \o IntToStr(question_id)

\* f"{assignment_id}_{question_id}"
AssignmentQuestionId(assignment_id, question_id) ==
    assignment_id \o <<"_">> \o IntToStr(question_id)

(* ------------------------------- scorer --------------------------------- *)

\* the vectors the embedding model returns for the texts of the model
get_text_embed(text) ==
    CASE text = "ref"  -> <<1, 0>>
      [] text = "same" -> <<1, 0>>
      [] text = "good" -> <<4, 3>>
      [] text = "alt"  -> <<4, -3>>
      [] text = "opp"  -> <<-1, 0>>

RECURSIVE Dot(_, _)
Dot(v1, v2) == IF Len(v1) = 0 THEN 0
               ELSE v1[1] * v2[1] + Dot(Tail(v1), Tail(v2))

\* largest k with k <= 100 * |uv| / sqrt(den2), found without the root
ScaledMagnitude(uv, den2) ==
    CHOOSE k \in 0..100 : /\ k * k * den2 <= 10000 * uv * uv
                          /\ (k + 1) * (k + 1) * den2 > 10000 * uv * uv

\* 100 * uv / sqrt(uu * vv) rounded to the nearest integer, halves away
\* from zero
RoundedScore(v1, v2) ==
    LET uv   == Dot(v1, v2)
        den2 == Dot(v1, v1) * Dot(v2, v2)
        k    == ScaledMagnitude(uv, den2)
        up   == (2 * k + 1) * (2 * k + 1) * den2 <= 40000 * uv * uv
        mag  == IF up THEN k + 1 ELSE k
    IN  IF uv >= 0 THEN mag ELSE -mag

\* dist = distance.cosine(v1, v2); score = int(100 - dist * 100):
\* 100 - 100 * dist = 100 * uv / sqrt(uu * vv), and int() drops the
\* fraction towards zero
ComputeScore(v1, v2) ==
    LET uv   == Dot(v1, v2)
        den2 == Dot(v1, v1) * Dot(v2, v2)
    IN  IF uv >= 0 THEN ScaledMagnitude(uv, den2)
        ELSE -ScaledMagnitude(uv, den2)

(* ------------------------------ the table ------------------------------- *)

\* an answer record filed under an id of its own for every score
AnswerItemPerScore(student_id, assignment_id, question_id, answer, score) ==
    [ id                     |-> AnswerId(student_id, assignment_id, question_id)
                                     \o <<"_">> \o IntToStr(score),
      student_id             |-> student_id,
      assignment_id          |-> assignment_id,
      question_id            |-> IntToStr(question_id),
      assignment_question_id |-> AssignmentQuestionId(assignment_id, question_id),
      answer                 |-> answer,
      score                  |-> IntToStr(score),
      record_type            |-> "answer" ]

\* an answer record as save_answer_record writes it
AnswerItem(student_id, assignment_id, question_id, answer, score) ==
    [ id                     |-> AnswerId(student_id, assignment_id, question_id),
      student_id             |-> student_id,
      assignment_id          |-> assignment_id,
      question_id            |-> IntToStr(question_id),
      assignment_question_id |-> AssignmentQuestionId(assignment_id, question_id),
      answer                 |-> answer,
      score                  |-> IntToStr(score),
      record_type            |-> "answer" ]

\* an assignment record as the pages read it: its questions carry the
\* reference answers
AssignmentItem(assignment_id) ==
    [ id               |-> assignment_id,
      assignment_id    |-> assignment_id,
      question_answers |-> { [Id |-> q, Answer |-> ReferenceText] : q \in QuestionIds },
      record_type      |-> "assignment" ]

\* Table.put_item: the item replaces the one stored under the same "id"
put_item(items, item) == { r \in items : r.id # item.id } \cup {item}

\* Table.get_item: the "Item" of the response, absent when no item has the key
get_item(items, id) == { r \in items : r.id = id }

\* the assignment records a page load finds (scan followed to the last page)
get_assignments_from_dynamodb(items) ==
    { r \in items : r.record_type = "assignment" }

\* items a scan page may hold at most (the table's 1 MB page, scaled down)
PageItems == 4

RECURSIVE Orders(_, _)
\* every order in which a scan may walk its first k items
Orders(S, k) == IF S = {} \/ k = 0 THEN { <<>> }
                ELSE UNION { { <<x>> \o t : t \in Orders(S \ {x}, k - 1) } : x \in S }

Min(a, b) == IF a < b THEN a ELSE b

\* the items a first scan page has read, before the filter is applied
ScanFirstPage(items) == Orders(items, PageItems)

RECURSIVE SelectByType(_, _, _)
\* the filter with the test of assignment_question_id left out
SelectByType(page, type, aq_id) ==
    IF Len(page) = 0 THEN <<>>
    ELSE (IF page[1].record_type = type THEN <<page[1]>> ELSE <<>>)
             \o SelectByType(Tail(page), type, aq_id)

RECURSIVE SelectItems(_, _, _)
\* FilterExpression "record_type = :type AND assignment_question_id = :aq_id"
SelectItems(page, type, aq_id) ==
    IF Len(page) = 0 THEN <<>>
    ELSE LET x == page[1]
             keep == x.record_type = type /\ x.assignment_question_id = aq_id
         IN  (IF keep THEN <<x>> ELSE <<>>) \o SelectItems(Tail(page), type, aq_id)

\* key=lambda x: float(x.get("score", 0))
ScoreKey(x) == StrToFloat(x.score)

RECURSIVE InsertDescending(_, _)
\* x goes behind every record whose key is at least its own: the sort is
\* stable, equal keys keep the order of the scan
InsertDescending(sorted, x) ==
    IF Len(sorted) = 0 THEN <<x>>
    ELSE IF ScoreKey(sorted[1]) >= ScoreKey(x)
         THEN <<sorted[1]>> \o InsertDescending(Tail(sorted), x)
         ELSE <<x>> \o sorted

\* the records left in the order of the scan
ScanOrder(records) == records

RECURSIVE SortedByScore(_)
\* sorted(records, key=..., reverse=True)
SortedByScore(records) ==
    IF Len(records) = 0 THEN <<>>
    ELSE InsertDescending(SortedByScore(SubSeq(records, 1, Len(records) - 1)),
                          records[Len(records)])

\* records[:limit] of a Python list: the first limit records, and for a
\* negative limit all but the last -limit records
PySlice(records, limit) ==
    IF limit >= 0 THEN SubSeq(records, 1, Min(limit, Len(records)))
    ELSE IF Len(records) + limit > 0 THEN SubSeq(records, 1, Len(records) + limit)
    ELSE <<>>

\* the default of the limit parameter, which the page does not override
DefaultLimit == 5

\* the successful path of get_high_score_answer_records_from_dynamodb on
\* the page the scan returned
get_high_score_answer_records_from_dynamodb(page, assignment_id, question_id, limit) ==
    LET records == SelectItems(page, "answer",
                               AssignmentQuestionId(assignment_id, question_id))
        sorted_records == SortedByScore(records)
    IN  PySlice(sorted_records, limit)

(* ------------------------------- state ---------------------------------- *)

VARIABLES
    table,      \* the items of the DynamoDB table
    pc,         \* where each session's script run stands
    req,        \* the arguments of the session's save_answer_record call
    existing,   \* the record the call read: {} is None
    wrote,      \* whether the call's put_item was carried out
    shown,      \* what st.write told the student after the save
    board,      \* high_score_records of the session
    best,       \* per key, the first submission that reached the highest score
    nsub,       \* submissions made so far
    scorer,     \* a scorer run on its own: the two vectors and the result
    top,        \* a leaderboard query called on its own: arguments and result
    mongo,      \* the documents of the MongoDB collection "assignments"
    pages       \* what the Create page reported and the other pages listed

vars == <<table, pc, req, existing, wrote, shown, board, best, nsub, scorer, top, mongo, pages>>

Keys == Students \X AssignmentIds \X QuestionIds

NoRequest == [ student_id |-> <<>>, assignment_id |-> <<>>, question_id |-> 0,
               answer |-> "", score |-> 0 ]

NoMessage == [ updated |-> FALSE, score |-> 0 ]

NoScorer == [ v1 |-> <<>>, v2 |-> <<>>, result |-> {} ]

NoTop == [ assignment_id |-> <<>>, question_id |-> 0, limit |-> 0,
           returned |-> FALSE, result |-> <<>> ]

\* the pages that list the assignments: Show Assignments and Complete
\* Assignments
ListingPages == {"show", "complete"}

NoPages == [ saved  |-> {},
             listed |-> [p \in ListingPages |-> {}],
             loads  |-> [p \in ListingPages |-> 0],
             error  |-> FALSE ]

KeyOf(r) == <<r.student_id, r.assignment_id, r.question_id>>

Init ==
    /\ table = { AssignmentItem(a) : a \in AssignmentIds }
    /\ pc = [s \in Sessions |-> "idle"]
    /\ req = [s \in Sessions |-> NoRequest]
    /\ existing = [s \in Sessions |-> {}]
    /\ wrote = [s \in Sessions |-> FALSE]
    /\ shown = [s \in Sessions |-> NoMessage]
    /\ board = [s \in Sessions |-> <<>>]
    /\ best = [k \in Keys |-> {}]
    /\ nsub = 0
    /\ scorer = NoScorer
    /\ top = NoTop
    /\ mongo = {}
    /\ pages = NoPages

(* ------------------------- the submission flow -------------------------- *)

\* the submission that keep-the-highest prescribes for a key once one more
\* submission has been made for it
BestAfter(old, answer, score) ==
    IF old = {} \/ \A b \in old : score > b.score
    THEN { [answer |-> answer, score |-> score] }
    ELSE old

\* The student has chosen an assignment and a question and typed an answer:
\* both texts are embedded, the score is computed and shown, and
\* save_answer_record is entered.  students are the user names the page
\* may run under, texts the answers that may be typed.
SubmitAs(s, students, texts) ==
    /\ pc[s] = "idle"
    /\ nsub < MaxSubmits
    /\ \E student \in students, rec \in get_assignments_from_dynamodb(table),
          answer \in texts :
         \E qa \in rec.question_answers :
            LET v1 == get_text_embed(qa.Answer)
                v2 == get_text_embed(answer)
                score == ComputeScore(v1, v2)
                r == [ student_id |-> student, assignment_id |-> rec.assignment_id,
                       question_id |-> qa.Id, answer |-> answer, score |-> score ]
            IN  /\ req' = [req EXCEPT ![s] = r]
                /\ best' = [best EXCEPT ![KeyOf(r)] = BestAfter(@, answer, score)]
    /\ pc' = [pc EXCEPT ![s] = "get"]
    /\ nsub' = nsub + 1
    /\ UNCHANGED <<table, existing, wrote, shown, board, scorer, top, mongo, pages>>

Submit(s) == SubmitAs(s, Students, AnswerTexts)

\* a read that files an empty record when it finds none
GetAnswerRecordOrCreate(s) ==
    /\ pc[s] = "get"
    /\ LET found == get_item(table, AnswerId(req[s].student_id, req[s].assignment_id,
                                             req[s].question_id))
       IN  /\ existing' = [existing EXCEPT ![s] = found]
           /\ table' = IF found = {}
                       THEN put_item(table, AnswerItem(req[s].student_id,
                                                       req[s].assignment_id,
                                                       req[s].question_id, "", 0))
                       ELSE table
    /\ pc' = [pc EXCEPT ![s] = "put"]
    /\ UNCHANGED <<req, wrote, shown, board, best, nsub, scorer, top, mongo, pages>>

\* get_answer_record_from_dynamodb returns the stored item, or None
GetAnswerRecord(s) ==
    /\ pc[s] = "get"
    /\ existing' = [existing EXCEPT ![s] =
          get_item(table, AnswerId(req[s].student_id, req[s].assignment_id,
                                   req[s].question_id))]
    /\ pc' = [pc EXCEPT ![s] = "put"]
    /\ UNCHANGED <<table, req, wrote, shown, board, best, nsub, scorer, top, mongo, pages>>

\* get_item raises ClientError: the error is logged and None is returned
GetAnswerRecordFails(s) ==
    /\ pc[s] = "get"
    /\ existing' = [existing EXCEPT ![s] = {}]
    /\ pc' = [pc EXCEPT ![s] = "put"]
    /\ UNCHANGED <<table, req, wrote, shown, board, best, nsub, scorer, top, mongo, pages>>

\* the comparison with >= in the place of >
ShouldWriteOrEqual(found, score) ==
    found = {} \/ \A e \in found : StrToFloat(IntToStr(score)) >= StrToFloat(e.score)

\* not existing or float(score) > float(existing.get("score", 0))
ShouldWrite(found, score) ==
    found = {} \/ \A e \in found : StrToFloat(IntToStr(score)) > StrToFloat(e.score)

\* The rest of save_answer_record when the table answers: the item is put
\* if the comparison says so; the call returns None either way and the page
\* writes its message.
SaveAnswerRecord(s) ==
    /\ pc[s] = "put"
    /\ LET r == req[s]
           item == AnswerItem(r.student_id, r.assignment_id, r.question_id,
                              r.answer, r.score)
       IN  IF ShouldWrite(existing[s], r.score)
           THEN /\ table' = put_item(table, item)
                /\ wrote' = [wrote EXCEPT ![s] = TRUE]
           ELSE UNCHANGED <<table, wrote>>
    /\ shown' = [shown EXCEPT ![s] = [updated |-> TRUE, score |-> req[s].score]]
    /\ pc' = [pc EXCEPT ![s] = "board"]
    /\ UNCHANGED <<req, existing, board, best, nsub, scorer, top, mongo, pages>>

\* a put_item that has stored the item before the error is raised
SaveAnswerRecordFailsAfterWrite(s) ==
    /\ pc[s] = "put"
    /\ ShouldWrite(existing[s], req[s].score)
    /\ table' = put_item(table, AnswerItem(req[s].student_id, req[s].assignment_id,
                                           req[s].question_id, req[s].answer,
                                           req[s].score))
    /\ pc' = [pc EXCEPT ![s] = "raised"]
    /\ UNCHANGED <<req, existing, wrote, shown, board, best, nsub, scorer, top, mongo, pages>>

\* put_item raises ClientError: it is logged and raised again, which ends
\* the script run
SaveAnswerRecordFails(s) ==
    /\ pc[s] = "put"
    /\ ShouldWrite(existing[s], req[s].score)
    /\ pc' = [pc EXCEPT ![s] = "raised"]
    /\ UNCHANGED <<table, req, existing, wrote, shown, board, best, nsub, scorer, top, mongo, pages>>

\* the leaderboard read that follows the save
ShowLeaderboard(s) ==
    /\ pc[s] = "board"
    /\ \E page \in ScanFirstPage(table) :
          board' = [board EXCEPT ![s] =
              get_high_score_answer_records_from_dynamodb(
                  page, req[s].assignment_id, req[s].question_id, DefaultLimit)]
    /\ pc' = [pc EXCEPT ![s] = "done"]
    /\ UNCHANGED <<table, req, existing, wrote, shown, best, nsub, scorer, top, mongo, pages>>

\* the scan raises ClientError: the error is logged and [] is returned
ShowLeaderboardFails(s) ==
    /\ pc[s] = "board"
    /\ board' = [board EXCEPT ![s] = <<>>]
    /\ pc' = [pc EXCEPT ![s] = "done"]
    /\ UNCHANGED <<table, req, existing, wrote, shown, best, nsub, scorer, top, mongo, pages>>

\* the next interaction runs the script again from the top
Rerun(s) ==
    /\ pc[s] \in {"done", "raised"}
    /\ pc' = [pc EXCEPT ![s] = "idle"]
    /\ req' = [req EXCEPT ![s] = NoRequest]
    /\ existing' = [existing EXCEPT ![s] = {}]
    /\ wrote' = [wrote EXCEPT ![s] = FALSE]
    /\ shown' = [shown EXCEPT ![s] = NoMessage]
    /\ board' = [board EXCEPT ![s] = <<>>]
    /\ UNCHANGED <<table, best, nsub, scorer, top, mongo, pages>>

Next ==
    \E s \in Sessions :
        \/ Submit(s)
        \/ GetAnswerRecord(s)
        \/ GetAnswerRecordFails(s)
        \/ SaveAnswerRecord(s)
        \/ SaveAnswerRecordFails(s)
        \/ ShowLeaderboard(s)
        \/ ShowLeaderboardFails(s)
        \/ Rerun(s)

\* sessions interleave at the calls to the table, and the table may fail
Spec == Init /\ [][Next]_vars

(* ------------------- restricted schedules of the flow ------------------- *)

\* a save_answer_record call of the session is under way
InSave(s) == pc[s] \in {"get", "put"}

\* a submission that starts only when no other save is under way
SeqSubmit(s) == (\A t \in Sessions \ {s} : ~InSave(t)) /\ Submit(s)

NextSeq ==
    \E s \in Sessions :
        \/ SeqSubmit(s)
        \/ GetAnswerRecord(s)
        \/ GetAnswerRecordFails(s)
        \/ SaveAnswerRecord(s)
        \/ SaveAnswerRecordFails(s)
        \/ ShowLeaderboard(s)
        \/ ShowLeaderboardFails(s)
        \/ Rerun(s)

\* saves run one after another; the table may fail
SpecSeq == Init /\ [][NextSeq]_vars

NextSeqOK ==
    \E s \in Sessions :
        \/ SeqSubmit(s)
        \/ GetAnswerRecord(s)
        \/ SaveAnswerRecord(s)
        \/ ShowLeaderboard(s)
        \/ ShowLeaderboardFails(s)
        \/ Rerun(s)

\* saves run one after another and the table answers every call of a save
SpecSeqOK == Init /\ [][NextSeqOK]_vars

NextRace ==
    \E s \in Sessions :
        \/ Submit(s)
        \/ GetAnswerRecord(s)
        \/ SaveAnswerRecord(s)
        \/ ShowLeaderboard(s)
        \/ ShowLeaderboardFails(s)
        \/ Rerun(s)

\* saves interleave and the table answers every call of a save
SpecRace == Init /\ [][NextRace]_vars

(* ------------------ identifiers that hold the separator ----------------- *)

\* user names and assignment ids of which some hold a "_"
WideStudents == { <<"u">>, <<"u", "_", "7">> }

WideAssignmentIds == { <<"7">>, <<"7", "_", "7">> }

WideKeys == WideStudents \X WideAssignmentIds \X QuestionIds

InitWide ==
    /\ table = { AssignmentItem(a) : a \in WideAssignmentIds }
    /\ pc = [s \in Sessions |-> "idle"]
    /\ req = [s \in Sessions |-> NoRequest]
    /\ existing = [s \in Sessions |-> {}]
    /\ wrote = [s \in Sessions |-> FALSE]
    /\ shown = [s \in Sessions |-> NoMessage]
    /\ board = [s \in Sessions |-> <<>>]
    /\ best = [k \in WideKeys |-> {}]
    /\ nsub = 0
    /\ scorer = NoScorer
    /\ top = NoTop
    /\ mongo = {}
    /\ pages = NoPages

\* a submission under one of these user names, started when no other save
\* is under way
SeqSubmitWide(s) ==
    /\ \A t \in Sessions \ {s} : ~InSave(t)
    /\ SubmitAs(s, WideStudents, {"same", "good"})

NextWide ==
    \E s \in Sessions :
        \/ SeqSubmitWide(s)
        \/ GetAnswerRecord(s)
        \/ SaveAnswerRecord(s)
        \/ ShowLeaderboard(s)
        \/ Rerun(s)

\* saves run one after another, the table answers every call
SpecWide == InitWide /\ [][NextWide]_vars

(* --------------------- creating and listing assignments ----------------- *)

MaxCreates == 2
MaxLoads == 2

\* milliseconds since the id epoch at which Save Assignment may be pressed
Epochs == {1, 2}

\* values of math.floor(random.random() * 999) that are drawn
RandIds == {0, 998}

\* str((epoch * 1000) + rand_id)
generate_assignment_id_key(epoch, rand_id) == NatToStr((epoch * 1000) + rand_id)

\* Show Assignments: the assignment records of the table (scan followed to
\* the last page)
get_records_from_dynamodb(items) ==
    { r \in items : r.record_type = "assignment" }

\* questions_collection.insert_one(record): the document is added under a
\* fresh _id
insert_one(collection, record) ==
    collection \cup { [ _id           |-> Cardinality(collection) + 1,
                        assignment_id |-> record.assignment_id,
                        teacher_id    |-> record.teacher_id,
                        s3_image_name |-> record.s3_image_name ] }

insert_record_to_mongodb(collection, assignment_id, s3_image_name) ==
    insert_one(collection, [ assignment_id |-> assignment_id,
                             teacher_id    |-> "CloudAge-User",
                             s3_image_name |-> s3_image_name ])

\* assignment ids with which the table may have been filled
TableAssignmentIds == { <<"7">>, <<"8">> }

InitCreate ==
    /\ table \in { { AssignmentItem(a) : a \in S } : S \in SUBSET TableAssignmentIds }
    /\ pc = [s \in Sessions |-> "idle"]
    /\ req = [s \in Sessions |-> NoRequest]
    /\ existing = [s \in Sessions |-> {}]
    /\ wrote = [s \in Sessions |-> FALSE]
    /\ shown = [s \in Sessions |-> NoMessage]
    /\ board = [s \in Sessions |-> <<>>]
    /\ best = [k \in Keys |-> {}]
    /\ nsub = 0
    /\ scorer = NoScorer
    /\ top = NoTop
    /\ mongo = {}
    /\ pages = NoPages

\* Save Assignment with questions generated and a text entered: the id is
\* made, the image name is chosen by whether temp-create.png exists, the
\* record is inserted and st.success reports the id
SaveAssignment ==
    /\ Cardinality(mongo) < MaxCreates
    /\ \E epoch \in Epochs, rand_id \in RandIds, image \in BOOLEAN :
         LET assignment_id == generate_assignment_id_key(epoch, rand_id)
             object_name == IF image
                            THEN <<"generated_images/">> \o assignment_id \o <<".png">>
                            ELSE <<"no image created">>
         IN  /\ mongo' = insert_record_to_mongodb(mongo, assignment_id, object_name)
             /\ pages' = [pages EXCEPT !.saved = @ \cup {assignment_id},
                                       !.error = FALSE]
    /\ UNCHANGED <<table, pc, req, existing, wrote, shown, board, best, nsub, scorer, top>>

\* Save Assignment without questions or text, or with an exception before
\* insert_one has stored the record: st.error, nothing is stored
SaveAssignmentFails ==
    /\ pages' = [pages EXCEPT !.error = TRUE]
    /\ UNCHANGED <<table, pc, req, existing, wrote, shown, board, best, nsub, scorer, top, mongo>>

\* a load of the Show Assignments or of the Complete Assignments page: the
\* assignments to choose from are the ones the scan of the table returns
LoadListing(p) ==
    /\ pages.loads[p] < MaxLoads
    /\ LET records == IF p = "show" THEN get_records_from_dynamodb(table)
                                    ELSE get_assignments_from_dynamodb(table)
       IN  pages' = [pages EXCEPT !.listed[p] = { r.assignment_id : r \in records },
                                  !.loads[p] = @ + 1,
                                  !.error = FALSE]
    /\ UNCHANGED <<table, pc, req, existing, wrote, shown, board, best, nsub, scorer, top, mongo>>

\* the scan raises ClientError: st.error, and the page lists nothing
LoadListingFails(p) ==
    /\ pages.loads[p] < MaxLoads
    /\ pages' = [pages EXCEPT !.listed[p] = {},
                              !.loads[p] = @ + 1,
                              !.error = TRUE]
    /\ UNCHANGED <<table, pc, req, existing, wrote, shown, board, best, nsub, scorer, top, mongo>>

NextCreate ==
    \/ SaveAssignment
    \/ SaveAssignmentFails
    \/ \E p \in ListingPages : LoadListing(p)
    \/ \E p \in ListingPages : LoadListingFails(p)

\* the three pages used in any order
SpecCreate == InitCreate /\ [][NextCreate]_vars

(* --------------------------- the scorer alone --------------------------- *)

Coords == (0 - MaxCoord)..MaxCoord

\* the nonzero two-dimensional vectors with small integer components
Vectors == { <<x, y>> : x \in Coords, y \in Coords } \ { <<0, 0>> }

InitScore ==
    /\ table = { AssignmentItem(a) : a \in AssignmentIds }
    /\ pc = [s \in Sessions |-> "idle"]
    /\ req = [s \in Sessions |-> NoRequest]
    /\ existing = [s \in Sessions |-> {}]
    /\ wrote = [s \in Sessions |-> FALSE]
    /\ shown = [s \in Sessions |-> NoMessage]
    /\ board = [s \in Sessions |-> <<>>]
    /\ best = [k \in Keys |-> {}]
    /\ nsub = 0
    /\ scorer \in [ v1 : Vectors, v2 : Vectors, result : {{}} ]
    /\ top = NoTop
    /\ mongo = {}
    /\ pages = NoPages

\* the two lines that turn the embeddings into the score
ScoreStep ==
    /\ scorer.result = {}
    /\ scorer' = [scorer EXCEPT !.result = { ComputeScore(scorer.v1, scorer.v2) }]
    /\ UNCHANGED <<table, pc, req, existing, wrote, shown, board, best, nsub, top, mongo, pages>>

SpecScore == InitScore /\ [][ScoreStep]_vars

(* --------------------- the leaderboard query alone ---------------------- *)

\* answer records a table holds at most when the query is called on its own
MaxStored == 5

\* the scores of the stored records, in the order they were saved
StoredScores == <<95, 70, 90, 88, 70, 100, 99>>

\* the i-th stored record: one student each, all for assignment 7; the
\* third answers question 2, the others question 1
StoredRecord(i) ==
    AnswerItem(<<"s", DigitChar(i)>>, <<"7">>, IF i = 3 THEN 2 ELSE 1, "good",
               StoredScores[((i - 1) % Len(StoredScores)) + 1])

\* a table after n students have saved an answer
StoredTable(n) ==
    { AssignmentItem(a) : a \in { <<"7">>, <<"8">> } }
        \cup { StoredRecord(i) : i \in 1..n }

\* the questions a caller may ask for
Queries == { << <<"7">>, 1 >>, << <<"7">>, 2 >>, << <<"8">>, 1 >> }

\* the limits a caller may pass
Limits == {0 - 1, 0, 1, 3, DefaultLimit}

InitTop ==
    /\ table \in { StoredTable(n) : n \in 0..MaxStored }
    /\ pc = [s \in Sessions |-> "idle"]
    /\ req = [s \in Sessions |-> NoRequest]
    /\ existing = [s \in Sessions |-> {}]
    /\ wrote = [s \in Sessions |-> FALSE]
    /\ shown = [s \in Sessions |-> NoMessage]
    /\ board = [s \in Sessions |-> <<>>]
    /\ best = [k \in Keys |-> {}]
    /\ nsub = 0
    /\ scorer = NoScorer
    /\ top \in { [ assignment_id |-> q[1], question_id |-> q[2], limit |-> l,
                     returned |-> FALSE, result |-> <<>> ] :
                   q \in Queries, l \in Limits }
    /\ mongo = {}
    /\ pages = NoPages

\* get_high_score_answer_records_from_dynamodb when the scan answers
TopScores ==
    /\ ~top.returned
    /\ \E page \in ScanFirstPage(table) :
          top' = [top EXCEPT !.returned = TRUE,
                             !.result = get_high_score_answer_records_from_dynamodb(
                                 page, top.assignment_id, top.question_id, top.limit)]
    /\ UNCHANGED <<table, pc, req, existing, wrote, shown, board, best, nsub,
                   scorer, mongo, pages>>

SpecTop == InitTop /\ [][TopScores]_vars

(* ------------------------------- claims --------------------------------- *)

\* the answer records stored for a key
StoredFor(items, k) ==
    { r \in items : /\ r.record_type = "answer"
                    /\ r.student_id = k[1]
                    /\ r.assignment_id = k[2]
                    /\ r.question_id = IntToStr(k[3]) }

\* the key of the session's request
ReqKey(s) == <<req[s].student_id, req[s].assignment_id, req[s].question_id>>

\* no save_answer_record call is under way
NoSaveUnderWay == \A s \in Sessions : ~InSave(s)

\* C1: for every key, the score stored under that key never decreases from
\* one step to the next while saves run one after another, failed reads and
\* failed writes of the table included.
C1_StoredScoreNeverDecreases ==
    [][ \A k \in Keys : \A r \in StoredFor(table, k) :
           \E r2 \in StoredFor(table', k) :
              StrToFloat(r2.score) >= StrToFloat(r.score) ]_vars

\* C2: when saves for the same key interleave, then once all of them have
\* returned the stored score of every key is the highest score submitted
\* for it: no lower score has replaced a higher one.
C2_RacingSavesKeepMaximum ==
    NoSaveUnderWay =>
        \A k \in Keys : \A b \in best[k] :
            \E r \in StoredFor(table, k) : StrToFloat(r.score) = b.score

\* C3: after saves for a key that run one at a time and meet no failure of
\* the table, the stored record of the key holds the highest score submitted
\* for it so far and the answer of the first submission that reached it.
C3_StoredIsFirstBest ==
    NoSaveUnderWay =>
        \A k \in Keys :
            /\ best[k] = {} <=> StoredFor(table, k) = {}
            /\ \A b \in best[k] : \A r \in StoredFor(table, k) :
                  StrToFloat(r.score) = b.score /\ r.answer = b.answer

\* C3 witness: a second submission tied with the stored highest score under
\* another answer text, and its save has returned.
C3_Witness ==
    \E s \in Sessions :
        /\ pc[s] = "board"
        /\ existing[s] # {}
        /\ \A b \in best[ReqKey(s)] :
              b.score = req[s].score /\ b.answer # req[s].answer

\* C4: a save that returns has written its submission over the key's record
\* exactly when the key had no record or the incoming score was strictly
\* greater than the stored one; otherwise it has left the table as it was.
C4_CompareAndMaybeSwap ==
    [][ \A s \in Sessions :
          (pc[s] = "put" /\ pc'[s] = "board") =>
             LET r == req[s]
                 stored == StoredFor(table, ReqKey(s))
                 item == AnswerItem(r.student_id, r.assignment_id, r.question_id,
                                    r.answer, r.score)
             IN  IF stored = {} \/ \A e \in stored : r.score > StrToFloat(e.score)
                 THEN table' = put_item(table, item)
                 ELSE table' = table ]_vars

\* C5: whenever a key's stored score is higher than the score of a
\* submission, every save of that submission is rejected and leaves the
\* table as it was, however often it is repeated.
C5_RejectionIsIdempotent ==
    [][ \A s \in Sessions :
          ( /\ pc[s] = "put" /\ pc'[s] # "put"
            /\ \E e \in StoredFor(table, ReqKey(s)) :
                  StrToFloat(e.score) > req[s].score )
          => (table' = table /\ ~wrote'[s]) ]_vars

\* C6: the student is told that the highest score has been updated only
\* when the submission created or overwrote the stored record.
C6_UpdatedOnlyWhenWritten ==
    \A s \in Sessions : shown[s].updated => wrote[s]

\* C7: in every state of the table, every triple (student, assignment,
\* question) has at most one answer record.
C7_OneRecordPerKey ==
    \A k \in Keys : Cardinality(StoredFor(table, k)) <= 1

\* C7 witness: a save has written over the record the key already had.
C7_Witness ==
    \E s \in Sessions :
        /\ pc[s] = "board" /\ wrote[s] /\ existing[s] # {}
        /\ Cardinality(StoredFor(table, ReqKey(s))) = 1

\* C8: the score computed for two nonzero vectors is an integer between 0
\* and 100; a negative cosine similarity gives 0.
C8_ScoreWithinRange ==
    \A x \in scorer.result : 0 <= x /\ x <= 100

\* C9 as stated: the score is 100 times the cosine similarity rounded to the
\* nearest integer.
C9_ScoreIsRounded ==
    \A x \in scorer.result : x = RoundedScore(scorer.v1, scorer.v2)

\* C9 as amended: the score is 100 times the cosine similarity with the
\* fraction dropped (truncation towards zero), so identical vectors score
\* exactly 100 and a fraction of a half or more is not rounded up.
C9_ScoreIsTruncated ==
    \A x \in scorer.result :
        LET uv   == Dot(scorer.v1, scorer.v2)
            den2 == Dot(scorer.v1, scorer.v1) * Dot(scorer.v2, scorer.v2)
            mag  == IF x < 0 THEN 0 - x ELSE x
        IN  /\ mag * mag * den2 <= 10000 * uv * uv
            /\ (mag + 1) * (mag + 1) * den2 > 10000 * uv * uv
            /\ (uv >= 0 => x >= 0) /\ (uv <= 0 => x <= 0)
            /\ (scorer.v1 = scorer.v2 => x = 100)

\* C9 witness: a score whose scaled similarity has a fraction of at least a
\* half, and which rounding would have made one higher.
C9_Witness ==
    \E x \in scorer.result :
        x >= 0 /\ RoundedScore(scorer.v1, scorer.v2) = x + 1

\* C10: the records a leaderboard read returns are in descending numeric
\* order of score.
C10_LeaderboardDescending ==
    \A s \in Sessions : \A i, j \in 1..Len(board[s]) :
        i < j => StrToFloat(board[s][i].score) >= StrToFloat(board[s][j].score)

\* C10 witness: a leaderboard of two records with different scores.
C10_Witness ==
    \E s \in Sessions :
        /\ pc[s] = "done"
        /\ Len(board[s]) >= 2
        /\ board[s][1].score # board[s][2].score

\* the answer records stored for a question of an assignment
StoredForQuestion(items, assignment_id, question_id) ==
    { r \in items : /\ r.record_type = "answer"
                    /\ r.assignment_id = assignment_id
                    /\ r.question_id = IntToStr(question_id) }

\* the records of a sequence
Range(seq) == { seq[i] : i \in 1..Len(seq) }

\* C11: a leaderboard query with a positive limit returns exactly
\* min(limit, number of records stored for the question) records, and no
\* stored record of the question that it leaves out scores higher than one
\* it returns, whatever the size of the table and the paging of the scan.
C11_ReturnsTopN ==
    (top.returned /\ top.limit > 0) =>
        LET stored == StoredForQuestion(table, top.assignment_id, top.question_id)
        IN  /\ Len(top.result) = Min(top.limit, Cardinality(stored))
            /\ \A r \in stored \ Range(top.result) : \A x \in Range(top.result) :
                  StrToFloat(r.score) <= StrToFloat(x.score)

\* C13: a leaderboard query called with a limit of 0 or less does not
\* return a sequence of records.
C13_NonPositiveLimitRefused ==
    top.limit <= 0 => ~top.returned

\* the number of scores the page announces: "Top Three High Scores:"
TopThree == 3

\* C17: the leaderboard the page reads, with the limit it passes, has at
\* most three entries however many students have stored an answer.
C17_AtMostThreeShown ==
    (top.returned /\ top.limit = DefaultLimit) => Len(top.result) <= TopThree

\* C12: every record a leaderboard query returns is an answer record of
\* the assignment and the question asked for.
C12_OnlyRequestedQuestion ==
    \A x \in Range(top.result) :
        /\ x.record_type = "answer"
        /\ x.assignment_id = top.assignment_id
        /\ x.question_id = IntToStr(top.question_id)

\* C12 witness: a query has returned records while the table also holds an
\* answer to another question.
C12_Witness ==
    /\ top.returned
    /\ Len(top.result) >= 1
    /\ \E r \in table : /\ r.record_type = "answer"
                        /\ r.question_id # IntToStr(top.question_id)

\* C14: a failure of the table reaches the caller as an outcome of its
\* own: a point read that returns no record means that the key has none,
\* and a leaderboard read that returns no record means that the question
\* has none.
C14_FailureIsDistinct ==
    [][ \A s \in Sessions :
          /\ (pc[s] = "get" /\ pc'[s] = "put" /\ existing'[s] = {}) =>
                get_item(table, AnswerId(req[s].student_id, req[s].assignment_id,
                                         req[s].question_id)) = {}
          /\ (pc[s] = "board" /\ pc'[s] = "done" /\ board'[s] = <<>>) =>
                StoredForQuestion(table, req[s].assignment_id,
                                  req[s].question_id) = {} ]_vars

\* C15: a save that ends in a failure of the table has changed no record:
\* no step of it touches the table, the failure is raised to the caller,
\* and the caller is not told that a record was written.
C15_FailedSaveChangesNothing ==
    [][ \A s \in Sessions :
          (pc[s] \in {"get", "put"} /\ pc'[s] \in {"put", "raised"}) =>
             /\ table' = table
             /\ ~wrote'[s]
             /\ (pc'[s] = "raised" => ~shown'[s].updated) ]_vars

\* C15 witness: the put_item of a save that was to replace a stored record
\* has failed.
C15_Witness ==
    \E s \in Sessions : pc[s] = "raised" /\ existing[s] # {}

\* C16: the point read and the leaderboard read leave the table as it is,
\* also when they fail.
C16_ReadsChangeNothing ==
    [][ (\E s \in Sessions : \/ (pc[s] = "get" /\ pc'[s] = "put")
                             \/ (pc[s] = "board" /\ pc'[s] = "done"))
        => table' = table ]_vars

\* C16 witness: a point read that found no record and a leaderboard read
\* that returned records have both been made.
C16_Witness ==
    \E s \in Sessions :
        pc[s] = "done" /\ existing[s] = {} /\ Len(board[s]) >= 1

\* C18: a save for one triple (student, assignment, question) neither
\* reads nor changes the record of another triple, also when the
\* identifiers hold a "_": the item id is different for different triples.
C18_KeysAreIndependent ==
    [][ \A s \in Sessions :
          (InSave(s) /\ pc'[s] # pc[s]) =>
             /\ existing'[s] \subseteq StoredFor(table, ReqKey(s))
             /\ \A k \in WideKeys \ {ReqKey(s)} :
                   StoredFor(table', k) = StoredFor(table, k) ]_vars

\* C19: an assignment that the Create page has reported as saved is among
\* the assignments that a later load of the Show or of the Complete page
\* lists, when that load's scan does not fail.
C19_SavedIsListed ==
    [][ \A p \in ListingPages :
          (pages'.loads[p] > pages.loads[p] /\ ~pages'.error) =>
             pages.saved \subseteq pages'.listed[p] ]_vars

====
